---- MODULE Spec2Model ----
(***************************************************************************)
(* printbridge: the ESC/POS command builder (package printer) bound to one *)
(* transport (package adapter).  The builder accumulates bytes and Flush   *)
(* hands them to the transport; the transports are the native USB adapter, *)
(* the USB stub of non-cgo builds, the Windows spooler, the network        *)
(* socket, the serial placeholder and the console.                         *)
(***************************************************************************)
EXTENDS Integers, Sequences, FiniteSets, TLC

\* ------------------------------------------------------------------ bounds
MaxBuf == 3        \* longest command buffer explored
MaxData == 2       \* longest byte slice handed to Raw / Write by a caller
MaxDev == 2        \* most devices one USB enumeration returns
MaxLeak == 1       \* most acquired handles that no field refers to any more
NumCallers == 2    \* concurrent callers of one USB transport

\* ------------------------------------------------------------ basic values
Kinds == {"usb", "usbstub", "windows", "network", "serial", "console"}
PayloadBytes == {65}                             \* 'A'
Callers == 1 .. NumCallers

RECURSIVE SeqsUpTo(_, _)
SeqsUpTo(S, n) ==
    IF n = 0 THEN {<<>>}
    ELSE LET shorter == SeqsUpTo(S, n - 1)
         IN shorter \cup {Append(s, b) : s \in {t \in shorter : Len(t) = n - 1}, b \in S}

Data == SeqsUpTo(PayloadBytes, MaxData)

\* error values (the nil error and the messages the code builds)
Nil == "nil"
ErrAdapterNotOpen == "adapter not open"
ErrPrinterNotOpen == "printer not open"
ErrUSBUnavailable == "USB adapter not available"
ErrSerialTodo == "serial adapter not yet implemented"
ErrFlushOpen == "failed to open adapter"
ErrIO == "io error"
ErrPanic == "panic: index out of range"

NotOpenErrors == {ErrAdapterNotOpen, ErrPrinterNotOpen}

\* ---------------------------------------------------------------- state
VARIABLES
    buffer,    \* Printer.buffer
    adapter,   \* the transport bound to the builder (fields of all variants)
    held,      \* OS resources the process has acquired and not released
    last,      \* the last operation: name, adapter calls made, result
    inJob,     \* SpecConc: callers whose Open returned nil and who have not called Close
    actor,     \* SpecConc: the caller that made the last call (0: none yet)
    width,     \* Printer.width
    chain,     \* SpecBuilder, SpecEncode: the builder calls chained since the buffer was last empty
    serving    \* SpecServe: the route and position of each client's HTTP handler

vars == <<buffer, adapter, held, last, inJob, actor, width, chain, serving>>

\* ------------------------------------------------ environment (OS results)
Stages == {"none", "StartDoc", "StartPage", "Write", "EndPage", "EndDoc"}

\* what the operating system answers to an Open
\* (err: the library call failed; found / nDev: the device or devices it returned;
\* claimOk: the default interface could be claimed; hasOut / hasIn: its endpoints)
OpenEnv(err, n, claimOk, hasOut, hasIn) ==
    [err |-> err, found |-> n > 0, nDev |-> n,
     claimOk |-> claimOk, hasOut |-> hasOut, hasIn |-> hasIn]

\* (a lookup can fail after it has opened some devices: gousb's OpenDevices
\* and OpenDeviceWithVIDPID then return them together with the error)
OpenEnvs ==
    {OpenEnv(TRUE, 0, FALSE, FALSE, FALSE), OpenEnv(FALSE, 0, FALSE, FALSE, FALSE)}
    \cup {OpenEnv(TRUE, n, FALSE, FALSE, FALSE) : n \in 1 .. MaxDev}
    \cup {OpenEnv(FALSE, n, FALSE, FALSE, FALSE) : n \in 1 .. MaxDev}
    \cup {OpenEnv(FALSE, n, TRUE, o, i) : n \in 1 .. MaxDev, o \in BOOLEAN, i \in BOOLEAN}

\* what the operating system answers to a Write, Read or Close: the spooler
\* stage that fails, and whether the device or socket transfer succeeds
IoEnvs == [fail : Stages]
IoOk(e) == e.fail # "Write"

NoEnvO == OpenEnv(FALSE, 1, TRUE, TRUE, TRUE)

\* ------------------------------------------------------ resource handles
\* 0 is the nil pointer / zero handle; StaleEP stands for a pointer to an
\* endpoint of an interface that an earlier Close or failed Open released
StaleEP == -1

\* the handles the transport's fields refer to
Refs(a) == {a.handle, a.conn, a.ctx, a.device, a.intf} \ {0}

\* the k-th handle value not in use
RECURSIVE FreshK(_, _)
FreshK(used, k) ==
    LET f == CHOOSE n \in 1 .. (Cardinality(used) + 1) :
                 n \notin used /\ \A m \in 1 .. (n - 1) : m \in used
    IN IF k = 1 THEN f ELSE FreshK(used \cup {f}, k - 1)

Fresh(h, k) == FreshK(h, k)

\* result of one adapter call
Res(a, h, err, io, sent, data) ==
    [a |-> a, held |-> h, err |-> err, io |-> io, sent |-> sent, data |-> data]

NewAdapter(kind, vid, pid) ==
    [kind |-> kind, open |-> FALSE, handle |-> 0, conn |-> 0,
     ctx |-> 0, device |-> 0, intf |-> 0, done |-> 0, outEP |-> 0, inEP |-> 0,
     VendorID |-> vid, ProductID |-> pid]

Ok(a, h) == Res(a, h, Nil, <<>>, <<>>, <<>>)
Fail(a, h, err, io) == Res(a, h, err, io, <<>>, <<>>)

\* -------------------------------------------------- USBAdapter (cgo build)
\* the devices an enumeration hands back: handle values not in use
USBDevices(h, n) == {FreshK(h, k) : k \in 1 .. n}

\* the devices a failed lookup hands back with its error; no field ever
\* refers to them, so they are numbered apart from the handles in use
USBDropped(h, n) == {100 + Cardinality({x \in h : x > 100}) + k : k \in 1 .. n}

USBOpenGuard(a) == a.open

\* the endpoint field after the search loop: assigned only when one is found
USBEndpoint(old, intf, has) == IF has THEN intf ELSE IF old = 0 THEN 0 ELSE StaleEP

USBOpen(a, h, e) ==
    IF USBOpenGuard(a) THEN Ok(a, h)
    ELSE
    LET ctx == Fresh(h, 1)
        a1 == [a EXCEPT !.ctx = ctx]
        h1 == h \cup {ctx}
        explicit == a.VendorID # 0 /\ a.ProductID # 0
        lookup == IF explicit THEN "OpenDeviceWithVIDPID" ELSE "OpenDevices"
    IN  IF explicit /\ e.err
          \* a device returned with the error is dropped without Close
          THEN Fail(a1, (h1 \cup USBDropped(h1, IF e.found THEN 1 ELSE 0)) \ {ctx},
                    "failed to open device", <<"NewContext", "OpenDeviceWithVIDPID", "ctx.Close">>)
        ELSE IF explicit /\ ~e.found
          THEN Fail(a1, h1 \ {ctx}, "device not found", <<"NewContext", "OpenDeviceWithVIDPID", "ctx.Close">>)
        ELSE IF ~explicit /\ e.err
          \* the devices returned with the error are dropped without Close
          THEN Fail(a1, (h1 \cup USBDropped(h1, e.nDev)) \ {ctx}, "failed to enumerate USB devices",
                    <<"NewContext", "OpenDevices", "ctx.Close">>)
        ELSE IF ~explicit /\ e.nDev = 0
          THEN Fail(a1, h1 \ {ctx}, "no USB printer found", <<"NewContext", "OpenDevices", "ctx.Close">>)
        ELSE
        LET n == IF explicit THEN 1 ELSE e.nDev
            devices == USBDevices(h1, n)
            device == Fresh(h1, 1)
            \* devices[1:] are closed at once
            h2 == (h1 \cup devices) \ (devices \ {device})
            a2 == [a1 EXCEPT !.device = device]
        IN  IF ~e.claimOk
              THEN Fail(a2, h2 \ {device, ctx}, "failed to claim interface",
                        <<"NewContext", lookup, "DefaultInterface", "device.Close", "ctx.Close">>)
            ELSE
            LET intf == Fresh(h2, 1)
                h3 == h2 \cup {intf}
                a3 == [a2 EXCEPT !.intf = intf, !.done = intf,
                                 !.outEP = USBEndpoint(a2.outEP, intf, e.hasOut),
                                 !.inEP = USBEndpoint(a2.inEP, intf, e.hasIn)]
            IN  IF a3.outEP = 0
                  THEN Fail(a3, h3 \ {intf, device, ctx}, "no OUT endpoint found",
                            <<"NewContext", lookup, "DefaultInterface", "done", "device.Close", "ctx.Close">>)
                ELSE Res([a3 EXCEPT !.open = TRUE], h3, Nil,
                         <<"NewContext", lookup, "DefaultInterface">>, <<>>, <<>>)

USBWriteGuard(a) == ~a.open

USBWrite(a, h, data, e) ==
    IF USBWriteGuard(a) THEN Fail(a, h, ErrAdapterNotOpen, <<>>)
    ELSE IF IoOk(e) THEN Res(a, h, Nil, <<"outEP.Write">>, data, <<>>)
    ELSE Fail(a, h, ErrIO, <<"outEP.Write">>)

USBRead(a, h, e) ==
    IF ~a.open \/ a.inEP = 0 THEN Ok(a, h)
    ELSE IF IoOk(e) THEN Res(a, h, Nil, <<"inEP.Read">>, <<>>, <<18>>)
    ELSE Fail(a, h, ErrIO, <<"inEP.Read">>)

USBClose(a, h) ==
    IF ~a.open THEN Ok(a, h)
    ELSE Res([a EXCEPT !.open = FALSE],
             h \ ({a.done, a.device, a.ctx} \ {0}), Nil,
             <<"done", "device.Close", "ctx.Close">>, <<>>, <<>>)

USBIsOpen(a) == a.open

\* ------------------------------------------ USBAdapter stub (non-cgo build)
StubOpen(a, h) == Fail(a, h, ErrUSBUnavailable, <<>>)

\* faulty variant of StubWrite: the stub takes the bytes
StubWrite_Accepts(a, h, data) == Res(a, h, Nil, <<>>, data, <<>>)

StubWrite(a, h, data) == Fail(a, h, ErrUSBUnavailable, <<>>)

StubRead(a, h) == Fail(a, h, ErrUSBUnavailable, <<>>)
StubClose(a, h) == Ok(a, h)
StubIsOpen(a) == FALSE

\* ------------------------------------------------- WindowsPrinter (spooler)
WinOpen(a, h, e) ==
    IF e.err THEN Fail(a, h, "invalid printer name", <<>>)
    ELSE IF ~e.found THEN Fail(a, h, "OpenPrinterW failed", <<"OpenPrinterW">>)
    ELSE LET hnd == Fresh(h, 1)
         IN Res([a EXCEPT !.handle = hnd], h \cup {hnd}, Nil, <<"OpenPrinterW">>, <<>>, <<>>)

WinWrite(a, h, data, e) ==
    IF a.handle = 0 THEN Fail(a, h, ErrPrinterNotOpen, <<>>)
    ELSE IF e.fail = "StartDoc" THEN Fail(a, h, "StartDocPrinterW failed", <<"StartDoc">>)
    ELSE IF e.fail = "StartPage"
      THEN Fail(a, h, "StartPagePrinter failed", <<"StartDoc", "StartPage", "EndDoc">>)
    ELSE IF Len(data) = 0
      \* &data[0] on an empty slice
      THEN Fail(a, h, ErrPanic, <<"StartDoc", "StartPage">>)
    ELSE IF e.fail = "Write"
      THEN Fail(a, h, "WritePrinter failed", <<"StartDoc", "StartPage", "WritePrinter", "EndPage", "EndDoc">>)
    ELSE Res(a, h, Nil, <<"StartDoc", "StartPage", "WritePrinter", "EndPage", "EndDoc">>, data, <<>>)

WinRead(a, h) == Ok(a, h)

WinClose(a, h) ==
    IF a.handle # 0
      THEN Res([a EXCEPT !.handle = 0], h \ {a.handle}, Nil, <<"ClosePrinter">>, <<>>, <<>>)
      ELSE Ok(a, h)

WinIsOpen(a) == a.handle # 0

\* ------------------------------------------------------------ NetworkAdapter
NetOpen(a, h, e) ==
    IF a.open THEN Ok(a, h)
    ELSE IF e.err \/ ~e.found THEN Fail(a, h, "failed to connect", <<"DialTimeout">>)
    ELSE LET c == Fresh(h, 1)
         IN Res([a EXCEPT !.conn = c, !.open = TRUE], h \cup {c}, Nil, <<"DialTimeout">>, <<>>, <<>>)

\* faulty variant of NetWrite: a failed transfer marks the adapter closed
NetWrite_CloseOnError(a, h, data, e) ==
    IF ~a.open THEN Fail(a, h, ErrAdapterNotOpen, <<>>)
    ELSE IF IoOk(e) THEN Res(a, h, Nil, <<"conn.Write">>, data, <<>>)
    ELSE Fail([a EXCEPT !.open = FALSE], h, ErrIO, <<"conn.Write">>)

NetWrite(a, h, data, e) ==
    IF ~a.open THEN Fail(a, h, ErrAdapterNotOpen, <<>>)
    ELSE IF IoOk(e) THEN Res(a, h, Nil, <<"conn.Write">>, data, <<>>)
    ELSE Fail(a, h, ErrIO, <<"conn.Write">>)

NetRead(a, h, e) ==
    IF ~a.open THEN Fail(a, h, ErrAdapterNotOpen, <<>>)
    ELSE IF IoOk(e) THEN Res(a, h, Nil, <<"conn.Read">>, <<>>, <<18>>)
    ELSE Fail(a, h, ErrIO, <<"conn.Read">>)

NetClose(a, h, e) ==
    IF ~a.open THEN Ok(a, h)
    ELSE Res([a EXCEPT !.open = FALSE], h \ {a.conn},
             IF IoOk(e) THEN Nil ELSE ErrIO, <<"conn.Close">>, <<>>, <<>>)

NetIsOpen(a) == a.open

\* ------------------------------------------------------------- SerialAdapter
SerialOpen(a, h) == Fail(a, h, ErrSerialTodo, <<>>)
SerialWrite(a, h, data) == IF ~a.open THEN Fail(a, h, ErrAdapterNotOpen, <<>>) ELSE Ok(a, h)
SerialRead(a, h) == IF ~a.open THEN Fail(a, h, ErrAdapterNotOpen, <<>>) ELSE Ok(a, h)
SerialClose(a, h) == Ok([a EXCEPT !.open = FALSE], h)
SerialIsOpen(a) == a.open

\* ------------------------------------------------------------ ConsoleAdapter
ConsoleOpen(a, h) == Res([a EXCEPT !.open = TRUE], h, Nil, <<"stdout">>, <<>>, <<>>)

\* faulty variant of ConsoleWriteGuard: Write does not test the open flag
ConsoleWriteGuard_None(a) == FALSE

ConsoleWriteGuard(a) == ~a.open

ConsoleWrite(a, h, data) ==
    IF ConsoleWriteGuard(a) THEN Fail(a, h, ErrAdapterNotOpen, <<>>)
    ELSE Res(a, h, Nil, <<"stdout">>, data, <<>>)

ConsoleRead(a, h) == Ok(a, h)
ConsoleClose(a, h) == Res([a EXCEPT !.open = FALSE], h, Nil, <<"stdout">>, <<>>, <<>>)
ConsoleIsOpen(a) == a.open

\* ----------------------------------------- adapter.Adapter (dynamic dispatch)
Open(a, h, e) ==
    CASE a.kind = "usb" -> USBOpen(a, h, e)
      [] a.kind = "usbstub" -> StubOpen(a, h)
      [] a.kind = "windows" -> WinOpen(a, h, e)
      [] a.kind = "network" -> NetOpen(a, h, e)
      [] a.kind = "serial" -> SerialOpen(a, h)
      [] a.kind = "console" -> ConsoleOpen(a, h)

Write(a, h, data, e) ==
    CASE a.kind = "usb" -> USBWrite(a, h, data, e)
      [] a.kind = "usbstub" -> StubWrite(a, h, data)
      [] a.kind = "windows" -> WinWrite(a, h, data, e)
      [] a.kind = "network" -> NetWrite(a, h, data, e)
      [] a.kind = "serial" -> SerialWrite(a, h, data)
      [] a.kind = "console" -> ConsoleWrite(a, h, data)

Read(a, h, e) ==
    CASE a.kind = "usb" -> USBRead(a, h, e)
      [] a.kind = "usbstub" -> StubRead(a, h)
      [] a.kind = "windows" -> WinRead(a, h)
      [] a.kind = "network" -> NetRead(a, h, e)
      [] a.kind = "serial" -> SerialRead(a, h)
      [] a.kind = "console" -> ConsoleRead(a, h)

Close(a, h, e) ==
    CASE a.kind = "usb" -> USBClose(a, h)
      [] a.kind = "usbstub" -> StubClose(a, h)
      [] a.kind = "windows" -> WinClose(a, h)
      [] a.kind = "network" -> NetClose(a, h, e)
      [] a.kind = "serial" -> SerialClose(a, h)
      [] a.kind = "console" -> ConsoleClose(a, h)

IsOpen(a) ==
    CASE a.kind = "usb" -> USBIsOpen(a)
      [] a.kind = "usbstub" -> StubIsOpen(a)
      [] a.kind = "windows" -> WinIsOpen(a)
      [] a.kind = "network" -> NetIsOpen(a)
      [] a.kind = "serial" -> SerialIsOpen(a)
      [] a.kind = "console" -> ConsoleIsOpen(a)


\* the operating system answers that a backend's Open / Write can tell apart
OpenEnvsOf(a) ==
    IF IsOpen(a) /\ a.kind # "windows" THEN {NoEnvO}
    ELSE IF a.kind = "usb" THEN OpenEnvs
    ELSE IF a.kind \in {"windows", "network"}
      THEN {e \in OpenEnvs : e.nDev <= 1 /\ (e.found => e.claimOk /\ e.hasOut /\ e.hasIn)}
    ELSE {NoEnvO}

IoEnvsOf(a) ==
    IF a.kind = "windows" THEN IoEnvs
    ELSE IF a.kind \in {"usb", "network"} THEN {e \in IoEnvs : e.fail \in {"none", "Write"}}
    ELSE {e \in IoEnvs : e.fail = "none"}

\* ------------------------------------------------------ byte-command table
HW_INIT == <<27, 64>>
CTL_LF == <<10>>

\* Text formatting
TextFormatting ==
    [TXT_BOLD_OFF |-> <<27, 69, 0>>, TXT_BOLD_ON |-> <<27, 69, 1>>,
     TXT_FONT_A |-> <<27, 77, 0>>, TXT_FONT_B |-> <<27, 77, 1>>, TXT_FONT_C |-> <<27, 77, 2>>,
     TXT_ALIGN_LT |-> <<27, 97, 0>>, TXT_ALIGN_CT |-> <<27, 97, 1>>, TXT_ALIGN_RT |-> <<27, 97, 2>>]

\* Paper cutting
PaperCutting == [PAPER_FULL_CUT |-> <<29, 86, 0>>, PAPER_PART_CUT |-> <<29, 86, 1>>]

\* Barcode format
BarcodeFormat ==
    [BARCODE_TXT_BLW |-> <<29, 72, 2>>, BARCODE_FONT_A |-> <<29, 102, 0>>,
     BARCODE_UPC_A |-> <<29, 107, 0>>, BARCODE_UPC_E |-> <<29, 107, 1>>,
     BARCODE_EAN13 |-> <<29, 107, 2>>, BARCODE_EAN8 |-> <<29, 107, 3>>,
     BARCODE_CODE39 |-> <<29, 107, 4>>, BARCODE_ITF |-> <<29, 107, 5>>,
     BARCODE_NW7 |-> <<29, 107, 6>>, BARCODE_CODE93 |-> <<29, 107, 72>>,
     BARCODE_CODE128 |-> <<29, 107, 73>>]

\* QR Code
QRCommands ==
    [QR_MODEL |-> <<29, 40, 107, 4, 0, 49, 65>>, QR_SIZE |-> <<29, 40, 107, 3, 0, 49, 67>>,
     QR_ERROR |-> <<29, 40, 107, 3, 0, 49, 69>>, QR_STORE_PRE |-> <<29, 40, 107>>,
     QR_STORE_POST |-> <<49, 80, 48>>, QR_PRINT |-> <<29, 40, 107, 3, 0, 49, 81, 48>>]

\* byte(n): the low eight bits of an int
Byte(n) == n % 256

\* faulty variant of TxtCustomSize: the width is not clamped from above
TxtCustomSize_NoUpperClamp(w, h) ==
    LET cw == IF w < 1 THEN 1 ELSE w
        h1 == IF h < 1 THEN 1 ELSE h
        ch == IF h1 > 8 THEN 8 ELSE h1
    IN  <<29, 33, Byte((cw - 1) * 16 + (ch - 1))>>

TxtCustomSize(w, h) ==
    LET w1 == IF w < 1 THEN 1 ELSE w
        cw == IF w1 > 8 THEN 8 ELSE w1
        h1 == IF h < 1 THEN 1 ELSE h
        ch == IF h1 > 8 THEN 8 ELSE h1
    IN  <<29, 33, Byte((cw - 1) * 16 + (ch - 1))>>

BarcodeHeight(h) ==
    LET h1 == IF h < 1 THEN 1 ELSE h
        ch == IF h1 > 255 THEN 255 ELSE h1
    IN  <<29, 104, Byte(ch)>>

BarcodeWidth(w) ==
    LET w1 == IF w < 2 THEN 2 ELSE w
        cw == IF w1 > 6 THEN 6 ELSE w1
    IN  <<29, 119, Byte(cw)>>

SetCharset(n) ==
    LET n1 == IF n < 0 THEN 0 ELSE n
        n2 == IF n1 > 15 THEN 15 ELSE n1
    IN  <<27, 82, Byte(n2)>>

\* only the lower bound is tested
SetCodePage(n) ==
    LET n1 == IF n < 0 THEN 0 ELSE n
    IN  <<27, 116, Byte(n1)>>

\* faulty variant of SetLineSpacing: the upper bound is not tested
SetLineSpacing_NoUpperClamp(n) ==
    LET n1 == IF n < 0 THEN 0 ELSE n
    IN  <<27, 51, Byte(n1)>>

SetLineSpacing(n) ==
    LET n1 == IF n < 0 THEN 0 ELSE n
        n2 == IF n1 > 255 THEN 255 ELSE n1
    IN  <<27, 51, Byte(n2)>>

FeedDots(n) ==
    LET n1 == IF n < 0 THEN 0 ELSE n
        n2 == IF n1 > 255 THEN 255 ELSE n1
    IN  <<27, 74, Byte(n2)>>

FeedLines(n) ==
    LET n1 == IF n < 0 THEN 0 ELSE n
        n2 == IF n1 > 255 THEN 255 ELSE n1
    IN  <<27, 100, Byte(n2)>>

\* ------------------------------------------------------------------ Printer
Call(m, arg, err) == [m |-> m, arg |-> arg, err |-> err]

Last(op, calls, ret, io, sent, data) ==
    [op |-> op, calls |-> calls, ret |-> ret, io |-> io, sent |-> sent, data |-> data]

\* faulty variant of FlushEmpty: the empty-buffer early return is missing
FlushEmpty_Never(buf) == FALSE

\* len(p.buffer) == 0
FlushEmpty(buf) == Len(buf) = 0

\* faulty variant of FlushOpenErr: the error of Open is ignored
FlushOpenErr_Ignored(err) == FALSE

\* err != nil after p.adapter.Open()
FlushOpenErr(err) == err # Nil

\* faulty variant of FlushWriteArg: the first byte is not sent
FlushWriteArg_Tail(buf) == Tail(buf)

\* the slice handed to p.adapter.Write
FlushWriteArg(buf) == buf

\* faulty variant of FlushClear: the buffer is cleared only when Write succeeded
FlushClear_OnSuccess(buf, err) == IF err = Nil THEN <<>> ELSE buf

\* p.buffer = p.buffer[:0], whatever Write returned
FlushClear(buf, err) == <<>>

\* faulty variant of AppendBytes: the encoding replaces the buffer
AppendBytes_Overwrite(buf, enc) == enc

\* p.buffer = append(p.buffer, enc...)
AppendBytes(buf, enc) == buf \o enc

\* faulty variant of FlushRetain: a Flush that fails at Open drops the bytes
FlushRetain_Drop(buf) == <<>>

\* the buffer after a Flush that returned at the failed Open: untouched
FlushRetain(buf) == buf

\* Printer.Flush, first half: the IsOpen query and, when it answers false, Open
FlushOpen(buf, a, h, oe) ==
    IF FlushEmpty(buf) \/ IsOpen(a) THEN Ok(a, h) ELSE Open(a, h, oe)

\* Printer.Flush: the buffer, transport and result it leaves, and the calls it
\* makes; o is the result of FlushOpen
FlushCall(buf, a, o, we) ==
    IF FlushEmpty(buf)
      THEN [buffer |-> buf, a |-> a, held |-> o.held, err |-> Nil,
            calls |-> <<>>, io |-> <<>>, sent |-> <<>>]
    ELSE
    LET openCalls == IF IsOpen(a) THEN <<Call("IsOpen", <<>>, Nil)>>
                     ELSE <<Call("IsOpen", <<>>, Nil), Call("Open", <<>>, o.err)>>
    IN  IF ~IsOpen(a) /\ FlushOpenErr(o.err)
          THEN [buffer |-> FlushRetain(buf), a |-> o.a, held |-> o.held, err |-> ErrFlushOpen,
                calls |-> openCalls, io |-> o.io, sent |-> <<>>]
        ELSE
        LET w == Write(o.a, o.held, FlushWriteArg(buf), we)
        IN  [buffer |-> FlushClear(buf, w.err), a |-> w.a, held |-> w.held, err |-> w.err,
             calls |-> Append(openCalls, Call("Write", FlushWriteArg(buf), w.err)),
             io |-> o.io \o w.io, sent |-> w.sent]

\* width: 48 in Printer.New
DefaultWidth == 48

\* ------------------------------------------------------------------- Init
\* no handler of the client is running
Idle == [route |-> "idle", pc |-> 0]

Configs ==
    {NewAdapter(k, 0, 0) : k \in Kinds} \cup {NewAdapter("usb", 1208, 514)}

Init ==
    /\ buffer = <<>>
    /\ adapter \in Configs
    /\ held = {}
    /\ last = Last("New", <<>>, Nil, <<>>, <<>>, <<>>)
    /\ inJob = [c \in Callers |-> FALSE]
    /\ actor = 0
    /\ width = DefaultWidth
    /\ chain = <<>>
    /\ serving = [c \in Callers |-> Idle]

\* --------------------------------------------------------- builder actions
BuilderStep(op, enc) ==
    /\ Len(buffer) + Len(enc) <= MaxBuf
    /\ buffer' = AppendBytes(buffer, enc)
    /\ last' = Last(op, <<>>, Nil, <<>>, <<>>, <<>>)
    /\ UNCHANGED <<adapter, held, inJob, actor, width, chain, serving>>

PrinterInit == BuilderStep("Init", HW_INIT)

NewLine == BuilderStep("NewLine", CTL_LF)

Raw == \E data \in Data : BuilderStep("Raw", data)

ClearBuffer(buf) == <<>>

Clear ==
    /\ buffer' = ClearBuffer(buffer)
    /\ last' = Last("Clear", <<>>, Nil, <<>>, <<>>, <<>>)
    /\ chain' = <<>>
    /\ UNCHANGED <<adapter, held, inJob, actor, width, serving>>

Flush ==
    \E oe \in OpenEnvsOf(adapter), we \in IoEnvsOf(adapter) :
      \E o \in {FlushOpen(buffer, adapter, held, oe)} :
      \E r \in {FlushCall(buffer, adapter, o, we)} :
          /\ Cardinality(r.held \ Refs(r.a)) <= MaxLeak
          /\ buffer' = r.buffer
          /\ adapter' = r.a
          /\ held' = r.held
          /\ last' = Last("Flush", r.calls, r.err, r.io, r.sent, <<>>)
          /\ chain' = IF r.buffer = <<>> THEN <<>> ELSE chain
          /\ UNCHANGED <<inJob, actor, width, serving>>

\* ------------------------------------------- direct calls on the transport
AdapterStep(op, arg, r) ==
    /\ Cardinality(r.held \ Refs(r.a)) <= MaxLeak
    /\ adapter' = r.a
    /\ held' = r.held
    /\ last' = Last(op, <<Call(op, arg, r.err)>>, r.err, r.io, r.sent, r.data)
    /\ UNCHANGED <<buffer, inJob, actor, width, chain, serving>>

AdapterOpen ==
    \E e \in OpenEnvsOf(adapter) :
      \E r \in {Open(adapter, held, e)} : AdapterStep("Open", <<>>, r)

AdapterWrite ==
    \E data \in Data, e \in IoEnvsOf(adapter) : AdapterStep("Write", data, Write(adapter, held, data, e))

AdapterRead == \E e \in IoEnvsOf(adapter) : AdapterStep("Read", <<>>, Read(adapter, held, e))

\* Printer.Close and the deferred adpt.Close of the server
AdapterClose == \E e \in IoEnvsOf(adapter) : AdapterStep("Close", <<>>, Close(adapter, held, e))

Next ==
    \/ PrinterInit
    \/ NewLine
    \/ Raw
    \/ Clear
    \/ Flush
    \/ AdapterOpen
    \/ AdapterWrite
    \/ AdapterRead
    \/ AdapterClose

Spec == Init /\ [][Next]_vars


\* ------------------------------------ concurrent callers of one USBAdapter
\* Every method of the native USBAdapter locks u.mu on entry and unlocks it
\* on return (defer): a call is a Lock step, taken when no call holds the
\* mutex, and a step that runs the body and unlocks; callers interleave
\* between the steps.
JobData(c) == <<64 + c>>

InitConc ==
    /\ buffer = <<>>
    /\ adapter \in {NewAdapter("usb", 0, 0), NewAdapter("usb", 1208, 514)}
    /\ held = {}
    /\ last = Last("New", <<>>, Nil, <<>>, <<>>, <<>>)
    /\ inJob = [c \in Callers |-> FALSE]
    /\ actor = 0
    /\ width = DefaultWidth
    /\ chain = <<>>
    /\ serving = [c \in Callers |-> Idle]

\* faulty variant of MuLock: Lock returns while another call holds the mutex
MuLock_NoWait(s) == TRUE

\* u.mu.Lock() returns when no call holds the mutex
MuLock(s) == \A d \in Callers : s[d] = Idle

\* u.mu.Lock() at the entry of a method called by c
CLock(c) ==
    /\ serving[c] = Idle
    /\ MuLock(serving)
    /\ serving' = [serving EXCEPT ![c] = [route |-> "u.mu", pc |-> 1]]
    /\ UNCHANGED <<buffer, adapter, held, last, inJob, actor, width, chain>>

\* the body of the method and the deferred u.mu.Unlock()
CallerStep(c, op, arg, r, job) ==
    /\ serving[c] # Idle
    /\ serving' = [serving EXCEPT ![c] = Idle]
    /\ Cardinality(r.held \ Refs(r.a)) <= MaxLeak
    /\ adapter' = r.a
    /\ held' = r.held
    /\ last' = Last(op, <<Call(op, arg, r.err)>>, r.err, r.io, r.sent, r.data)
    /\ inJob' = [inJob EXCEPT ![c] = job]
    /\ actor' = c
    /\ UNCHANGED <<buffer, width, chain>>

COpen(c) ==
    \E e \in OpenEnvsOf(adapter) :
      \E r \in {USBOpen(adapter, held, e)} :
        CallerStep(c, "Open", <<>>, r, IF r.err = Nil THEN TRUE ELSE inJob[c])

CWrite(c) ==
    \E e \in IoEnvsOf(adapter) :
      CallerStep(c, "Write", JobData(c), USBWrite(adapter, held, JobData(c), e), inJob[c])

CRead(c) ==
    \E e \in IoEnvsOf(adapter) :
      CallerStep(c, "Read", <<>>, USBRead(adapter, held, e), inJob[c])

CClose(c) == CallerStep(c, "Close", <<>>, USBClose(adapter, held), FALSE)

CIsOpen(c) ==
    CallerStep(c, "IsOpen", <<>>,
               Res(adapter, held, Nil, <<>>, <<>>, IF USBIsOpen(adapter) THEN <<1>> ELSE <<0>>),
               inJob[c])

NextConc ==
    \E c \in Callers :
        \/ CLock(c)
        \/ COpen(c)
        \/ CWrite(c)
        \/ CRead(c)
        \/ CClose(c)
        \/ CIsOpen(c)

SpecConc == InitConc /\ [][NextConc]_vars

\* ------------------------------------------------ builder methods (encodings)
\* A Go string that is only compared is a TLA+ string; a Go string whose bytes
\* are appended ([]byte(content)) is the sequence of its bytes.
MaxCalls == 2      \* longest chain of builder calls explored in full

QRErrorL == 48
QRErrorM == 49
QRErrorQ == 50
QRErrorH == 51
QRModel1 == 49
QRModel2 == 50

\* the loop of Printer.Feed
RECURSIVE Feed(_)
Feed(n) == IF n <= 0 THEN <<>> ELSE Feed(n - 1) \o CTL_LF

Align(align) ==
    CASE align \in {"left", "lt", "LT"} -> TextFormatting.TXT_ALIGN_LT
      [] align \in {"center", "ct", "CT"} -> TextFormatting.TXT_ALIGN_CT
      [] align \in {"right", "rt", "RT"} -> TextFormatting.TXT_ALIGN_RT
      [] OTHER -> <<>>

Bold(on) == IF on THEN TextFormatting.TXT_BOLD_ON ELSE TextFormatting.TXT_BOLD_OFF

Font(font) ==
    CASE font \in {"a", "A"} -> TextFormatting.TXT_FONT_A
      [] font \in {"b", "B"} -> TextFormatting.TXT_FONT_B
      [] font \in {"c", "C"} -> TextFormatting.TXT_FONT_C
      [] OTHER -> <<>>

\* faulty variant of FontWidth: font B keeps the width of font A
FontWidth_BNarrow(font, w) ==
    CASE font \in {"a", "A", "b", "B"} -> 48
      [] font \in {"c", "C"} -> 64
      [] OTHER -> w

\* p.width after Font(font)
FontWidth(font, w) ==
    CASE font \in {"a", "A"} -> 48
      [] font \in {"b", "B"} -> 64
      [] font \in {"c", "C"} -> 64
      [] OTHER -> w

\* the loop of Printer.DrawLine: char appended i times
RECURSIVE DrawLineLoop(_, _)
DrawLineLoop(char, i) == IF i <= 0 THEN <<>> ELSE DrawLineLoop(char, i - 1) \o char

DrawLine(char, w) ==
    DrawLineLoop(IF char = <<>> THEN <<45>> ELSE char, w) \o CTL_LF

\* faulty variant of Cut: a full cut is not preceded by the feed
Cut_FullNoFeed(partial) ==
    IF partial THEN Feed(3) \o PaperCutting.PAPER_PART_CUT ELSE PaperCutting.PAPER_FULL_CUT

Cut(partial) ==
    Feed(3) \o (IF partial THEN PaperCutting.PAPER_PART_CUT ELSE PaperCutting.PAPER_FULL_CUT)

Barcode(code, barcodeType, w, h) ==
    BarcodeFormat.BARCODE_TXT_BLW \o BarcodeFormat.BARCODE_FONT_A \o BarcodeHeight(h) \o BarcodeWidth(w)
    \o (CASE barcodeType \in {"UPC_A", "UPC-A"} -> BarcodeFormat.BARCODE_UPC_A
          [] barcodeType \in {"UPC_E", "UPC-E"} -> BarcodeFormat.BARCODE_UPC_E
          [] barcodeType = "EAN13" -> BarcodeFormat.BARCODE_EAN13
          [] barcodeType = "EAN8" -> BarcodeFormat.BARCODE_EAN8
          [] barcodeType = "CODE39" -> BarcodeFormat.BARCODE_CODE39
          [] barcodeType = "CODE128" -> BarcodeFormat.BARCODE_CODE128
          [] OTHER -> BarcodeFormat.BARCODE_CODE39)
    \o code \o <<0>>

\* faulty variant of QRStoreLen: the three designator bytes are not counted
QRStoreLen_PayloadOnly(data) == Len(data)

\* storeLen := len(data) + 3
QRStoreLen(data) == Len(data) + 3

QRCodeAdvanced(content, size, errorLevel, model) ==
    LET s1 == IF size < 1 THEN 6 ELSE size
        s2 == IF s1 > 16 THEN 16 ELSE s1
    IN
    QRCommands.QR_MODEL \o <<Byte(model), 0>>
    \o QRCommands.QR_SIZE \o <<Byte(s2)>>
    \o QRCommands.QR_ERROR \o <<Byte(errorLevel)>>
    \o QRCommands.QR_STORE_PRE \o <<Byte(QRStoreLen(content) % 256), Byte(QRStoreLen(content) \div 256)>>
    \o QRCommands.QR_STORE_POST \o content
    \o QRCommands.QR_PRINT

QRCode(content, size) == QRCodeAdvanced(content, size, QRErrorL, QRModel2)

\* faulty variant of QRCodeURL: the level of the generic constructor
QRCodeURL_LevelL(url, size) == QRCodeAdvanced(url, size, QRErrorL, QRModel2)

QRCodeURL(url, size) == QRCodeAdvanced(url, size, QRErrorM, QRModel2)

QRCodeWiFi(ssid, password, authType, hidden) ==
    LET hiddenStr == IF hidden THEN <<116, 114, 117, 101>> ELSE <<102, 97, 108, 115, 101>>
        content == <<87, 73, 70, 73, 58, 84, 58>> \o authType \o <<59, 83, 58>> \o ssid
                   \o <<59, 80, 58>> \o password \o <<59, 72, 58>> \o hiddenStr \o <<59, 59>>
    IN  QRCodeAdvanced(content, 6, QRErrorM, QRModel2)

QRCodeVCard(name, phone, email, org) ==
    LET content == <<66, 69, 71, 73, 78, 58, 86, 67, 65, 82, 68, 10>>
                   \o <<86, 69, 82, 83, 73, 79, 78, 58, 51, 46, 48, 10>>
                   \o <<78, 58>> \o name \o <<10>>
                   \o <<84, 69, 76, 58>> \o phone \o <<10>>
                   \o <<69, 77, 65, 73, 76, 58>> \o email \o <<10>>
                   \o <<79, 82, 71, 58>> \o org \o <<10>>
                   \o <<69, 78, 68, 58, 86, 67, 65, 82, 68>>
    IN  QRCodeAdvanced(content, 5, QRErrorM, QRModel2)

QRCodeSMS(phone, message) ==
    QRCodeAdvanced(<<115, 109, 115, 116, 111, 58>> \o phone \o <<58>> \o message,
                   6, QRErrorM, QRModel2)

QRCodeEmail(to, subject, body) ==
    QRCodeAdvanced(<<109, 97, 105, 108, 116, 111, 58>> \o to
                   \o <<63, 115, 117, 98, 106, 101, 99, 116, 61>> \o subject
                   \o <<38, 98, 111, 100, 121, 61>> \o body,
                   6, QRErrorM, QRModel2)

QRCodePhone(phone) ==
    QRCodeAdvanced(<<116, 101, 108, 58>> \o phone, 6, QRErrorM, QRModel2)

\* ------------------------------------------- chained calls on the builder
\* one call of a builder method and its arguments
Method(m, args) == [m |-> m, args |-> args]

SameCall(c, d) == c.m = d.m /\ c.args = d.args

HELLO == <<72, 69, 76, 76, 79>>

\* the receipt of the round-trip example
Receipt ==
    <<Method("Init", <<>>), Method("Align", <<"center">>), Method("Bold", <<TRUE>>),
      Method("Text", <<HELLO>>), Method("Bold", <<FALSE>>), Method("Cut", <<FALSE>>)>>

\* the chains explored: every chain of at most MaxCalls calls, and the receipt
InScope(ch) ==
    \/ Len(ch) <= MaxCalls
    \/ /\ Len(ch) <= Len(Receipt)
       /\ \A i \in 1 .. Len(ch) : SameCall(ch[i], Receipt[i])

\* faulty variant of ChainStep: the encoding is put in front of the buffer
ChainStep_Prepend(m, args, enc, w) ==
    /\ buffer' = enc \o buffer
    /\ width' = w
    /\ chain' = Append(chain, Method(m, args))
    /\ last' = Last(m, <<>>, Nil, <<>>, <<>>, <<>>)
    /\ UNCHANGED <<adapter, held, inJob, actor, serving>>

\* one call of a builder method: p.buffer = append(p.buffer, enc...)
ChainStep(m, args, enc, w) ==
    /\ buffer' = AppendBytes(buffer, enc)
    /\ width' = w
    /\ chain' = Append(chain, Method(m, args))
    /\ last' = Last(m, <<>>, Nil, <<>>, <<>>, <<>>)
    /\ UNCHANGED <<adapter, held, inJob, actor, serving>>

BuilderCall(m, args, enc, w) ==
    /\ InScope(Append(chain, Method(m, args)))
    /\ ChainStep(m, args, enc, w)

InitBuilder ==
    /\ buffer = <<>>
    /\ adapter = NewAdapter("console", 0, 0)
    /\ held = {}
    /\ last = Last("New", <<>>, Nil, <<>>, <<>>, <<>>)
    /\ inJob = [c \in Callers |-> FALSE]
    /\ actor = 0
    /\ width = DefaultWidth
    /\ chain = <<>>
    /\ serving = [c \in Callers |-> Idle]

InitCall == BuilderCall("Init", <<>>, HW_INIT, width)

TextCall == \E content \in {<<>>, HELLO} : BuilderCall("Text", <<content>>, content, width)

AlignCall ==
    \E align \in {"left", "lt", "LT", "center", "ct", "CT", "right", "rt", "RT", "middle"} :
      BuilderCall("Align", <<align>>, Align(align), width)

BoldCall == \E on \in BOOLEAN : BuilderCall("Bold", <<on>>, Bold(on), width)

FontCall ==
    \E font \in {"a", "A", "b", "B", "c", "C", "d"} :
      BuilderCall("Font", <<font>>, Font(font), FontWidth(font, width))

DrawLineCall ==
    \E char \in {<<>>, <<61>>, <<97, 98>>} :
      BuilderCall("DrawLine", <<char>>, DrawLine(char, width), width)

CutCall == \E partial \in BOOLEAN : BuilderCall("Cut", <<partial>>, Cut(partial), width)

NextBuilder ==
    \/ InitCall
    \/ TextCall
    \/ AlignCall
    \/ BoldCall
    \/ FontCall
    \/ DrawLineCall
    \/ CutCall
    \/ Clear

SpecBuilder == InitBuilder /\ [][NextBuilder]_vars


\* ------------------------------------------ parametrised builder methods
MaxEncCalls == 1   \* longest chain of parametrised calls explored

\* a content string of n bytes
Payload(n) == [i \in 1 .. n |-> 65]

EncodeCall(m, args, enc) ==
    /\ Len(chain) < MaxEncCalls
    /\ ChainStep(m, args, enc, width)

SizeCall ==
    \E w \in {-1, 1, 4, 8, 9, 300}, h \in {-1, 1, 4, 8, 9, 300} :
      EncodeCall("Size", <<w, h>>, TxtCustomSize(w, h))

LineSpacingCall ==
    \E n \in {-300, -1, 0, 1, 60, 255, 256, 300, 511} :
      EncodeCall("LineSpacing", <<n>>, SetLineSpacing(n))

CharsetCall ==
    \E n \in {-300, -1, 0, 1, 15, 16, 255, 256, 300} :
      EncodeCall("Charset", <<n>>, SetCharset(n))

CodePageCall ==
    \E n \in {-300, -1, 0, 1, 19, 255, 256, 300} :
      EncodeCall("CodePage", <<n>>, SetCodePage(n))

FeedDotsCall ==
    \E n \in {-300, -1, 0, 1, 60, 255, 256, 300} :
      EncodeCall("FeedDots", <<n>>, FeedDots(n))

FeedLinesCall ==
    \E n \in {-300, -1, 0, 1, 60, 255, 256, 300} :
      EncodeCall("FeedLines", <<n>>, FeedLines(n))

BarcodeCall ==
    \E barcodeType \in {"UPC_A", "UPC-A", "UPC_E", "UPC-E", "EAN13", "EAN8", "CODE39",
                        "CODE128", "ITF", "NW7", "CODE93", "QR"},
       w \in {-1, 1, 2, 3, 6, 7, 300}, h \in {-1, 0, 1, 100, 255, 256, 300} :
      /\ barcodeType = "EAN13" \/ (w = 3 /\ h = 100)
      /\ EncodeCall("Barcode", <<<<49, 50>>, barcodeType, w, h>>,
                    Barcode(<<49, 50>>, barcodeType, w, h))

QRCodeCall ==
    \E n \in {0, 1, 252, 253, 300, 65532}, size \in {-1, 0, 1, 6, 16, 17} :
      /\ n = 1 \/ size = 6
      /\ EncodeCall("QRCode", <<Payload(n), size>>, QRCode(Payload(n), size))

QRCodeAdvancedCall ==
    \E size \in {-300, 0, 1, 3, 16, 17, 300}, errorLevel \in {QRErrorL, QRErrorM, QRErrorQ, QRErrorH},
       model \in {QRModel1, QRModel2} :
      /\ size = 3 \/ (errorLevel = QRErrorQ /\ model = QRModel1)
      /\ EncodeCall("QRCodeAdvanced", <<Payload(2), size, errorLevel, model>>,
                    QRCodeAdvanced(Payload(2), size, errorLevel, model))

QRCodeURLCall ==
    \E n \in {8, 253}, size \in {0, 6, 17} :
      EncodeCall("QRCodeURL", <<Payload(n), size>>, QRCodeURL(Payload(n), size))

QRCodeWiFiCall ==
    \E ssid \in {<<78, 101, 116>>, Payload(250)}, hidden \in BOOLEAN :
      EncodeCall("QRCodeWiFi", <<ssid, <<112, 119>>, <<87, 80, 65>>, hidden>>,
                 QRCodeWiFi(ssid, <<112, 119>>, <<87, 80, 65>>, hidden))

QRCodeVCardCall ==
    \E name \in {<<65, 108>>, Payload(250)} :
      EncodeCall("QRCodeVCard", <<name, <<53, 53, 53>>, <<97, 64, 98>>, <<79, 114, 103>>>>,
                 QRCodeVCard(name, <<53, 53, 53>>, <<97, 64, 98>>, <<79, 114, 103>>))

QRCodeSMSCall ==
    \E message \in {<<104, 105>>, Payload(250)} :
      EncodeCall("QRCodeSMS", <<<<53, 53, 53>>, message>>, QRCodeSMS(<<53, 53, 53>>, message))

QRCodeEmailCall ==
    \E body \in {<<104, 105>>, Payload(250)} :
      EncodeCall("QRCodeEmail", <<<<97, 64, 98>>, <<104, 105>>, body>>,
                 QRCodeEmail(<<97, 64, 98>>, <<104, 105>>, body))

QRCodePhoneCall ==
    \E phone \in {<<53, 53, 53>>, Payload(250)} :
      EncodeCall("QRCodePhone", <<phone>>, QRCodePhone(phone))

NextEncode ==
    \/ SizeCall
    \/ LineSpacingCall
    \/ CharsetCall
    \/ CodePageCall
    \/ FeedDotsCall
    \/ FeedLinesCall
    \/ BarcodeCall
    \/ QRCodeCall
    \/ QRCodeAdvancedCall
    \/ QRCodeURLCall
    \/ QRCodeWiFiCall
    \/ QRCodeVCardCall
    \/ QRCodeSMSCall
    \/ QRCodeEmailCall
    \/ QRCodePhoneCall
    \/ Clear

SpecEncode == InitBuilder /\ [][NextEncode]_vars


\* ===================================================================== claims
WriteCalls(calls) == {i \in DOMAIN calls : calls[i].m = "Write"}
OpenCalls(calls) == {i \in DOMAIN calls : calls[i].m = "Open"}

IsPrefix(s, t) == Len(s) <= Len(t) /\ SubSeq(t, 1, Len(s)) = s

\* C1: Flush on an empty buffer returns nil and makes no Open and no Write call,
\* whether the transport is open or closed; no Flush hands Write an empty slice.
C1_FlushEmptyNoop ==
    [][last'.op = "Flush" =>
         /\ buffer = <<>> =>
              /\ last'.ret = Nil
              /\ last'.calls = <<>>
              /\ last'.io = <<>>
              /\ adapter' = adapter /\ held' = held /\ buffer' = <<>>
         /\ \A i \in WriteCalls(last'.calls) : last'.calls[i].arg # <<>>]_vars

C1_Witness ==
    /\ last.op = "Flush" /\ last.calls = <<>> /\ last.ret = Nil
    /\ buffer = <<>> /\ ~IsOpen(adapter)

\* C2: with bytes buffered and the transport closed, the first call Flush makes
\* after the IsOpen query is Open; when that Open fails Flush returns the
\* error, calls no Write and leaves the buffer as it was.
C2_FlushOpenFailure ==
    [][(last'.op = "Flush" /\ buffer # <<>> /\ ~IsOpen(adapter)) =>
         /\ Len(last'.calls) >= 2
         /\ last'.calls[1].m = "IsOpen" /\ last'.calls[2].m = "Open"
         /\ last'.calls[2].err # Nil =>
              /\ last'.ret = ErrFlushOpen
              /\ WriteCalls(last'.calls) = {}
              /\ last'.sent = <<>>
              /\ buffer' = buffer]_vars

C2_Witness ==
    /\ last.op = "Flush" /\ last.ret = ErrFlushOpen
    /\ Len(last.calls) = 2 /\ last.calls[2].err # Nil
    /\ Len(buffer) >= 2

\* C3: with bytes buffered and the transport open, or opened by this Flush,
\* Flush makes exactly one Write call, its argument is the whole buffer in
\* append order, and if that Write returns nil the buffer is empty afterwards.
C3_FlushOneWrite ==
    [][(/\ last'.op = "Flush" /\ buffer # <<>>
        /\ \/ IsOpen(adapter)
           \/ \E i \in OpenCalls(last'.calls) : last'.calls[i].err = Nil) =>
         /\ Cardinality(WriteCalls(last'.calls)) = 1
         /\ \A i \in WriteCalls(last'.calls) :
              /\ last'.calls[i].arg = buffer
              /\ last'.calls[i].err = Nil => (buffer' = <<>> /\ last'.ret = Nil)]_vars

C3_Witness ==
    /\ last.op = "Flush" /\ last.ret = Nil /\ buffer = <<>>
    /\ \E i \in WriteCalls(last.calls) :
         /\ last.calls[i].arg = HW_INIT \o <<65>>
         /\ last.sent = last.calls[i].arg

\* C4: when the Write of a Flush fails, Flush returns that error and the buffer
\* is empty afterwards, so the unsent bytes are gone and no later Flush has
\* them to send.
C4_FlushWriteFailureClears ==
    [][last'.op = "Flush" =>
         \A i \in WriteCalls(last'.calls) :
            last'.calls[i].err # Nil =>
              /\ last'.ret = last'.calls[i].err
              /\ buffer' = <<>>
              /\ last'.sent = <<>>]_vars

C4_Witness ==
    /\ last.op = "Flush" /\ buffer = <<>>
    /\ \E i \in WriteCalls(last.calls) :
         last.calls[i].err # Nil /\ Len(last.calls[i].arg) >= 2

\* C5 (as claimed): a non-empty buffer becomes empty only in a Flush that
\* returns nil; every other step keeps the bytes already appended as a prefix.
C5_OnlySuccessfulFlushEmpties ==
    [][buffer # <<>> =>
         IF buffer' = <<>>
           THEN last'.op = "Flush" /\ last'.ret = Nil
           ELSE IsPrefix(buffer, buffer')]_vars

\* C5 (amended): a non-empty buffer becomes empty only in Clear or in a Flush
\* that reached Write, whatever Write returned; a Flush that fails at Open
\* leaves the buffer as it was, every other operation keeps the bytes already
\* appended in place, and the buffer is never cut to a non-empty prefix.
C5_EmptiedByWriteOrClear ==
    [][buffer # <<>> =>
         /\ IF buffer' = <<>>
              THEN \/ last'.op = "Clear"
                   \/ last'.op = "Flush" /\ WriteCalls(last'.calls) # {}
              ELSE IsPrefix(buffer, buffer')
         /\ (last'.op = "Flush" /\ WriteCalls(last'.calls) = {}) => buffer' = buffer]_vars

C5_Witness ==
    /\ last.op = "Flush" /\ last.ret = ErrIO /\ buffer = <<>>
    /\ Len(last.calls) = 3 /\ last.calls[2].m = "Open" /\ last.calls[2].err = Nil

\* C6: Open on a transport that is already open returns nil, leaves it open,
\* acquires nothing and keeps the handle it holds.
C6_OpenIdempotent ==
    [][(last'.op = "Open" /\ IsOpen(adapter)) =>
         /\ last'.ret = Nil
         /\ IsOpen(adapter')
         /\ held' = held
         /\ adapter' = adapter]_vars

\* C7: Close on a closed transport returns nil and changes nothing; Close on an
\* open transport leaves it closed with nothing that Open acquired still held.
C7_CloseReleasesAll ==
    [][last'.op = "Close" =>
         IF IsOpen(adapter)
           THEN ~IsOpen(adapter') /\ held' = {}
           ELSE last'.ret = Nil /\ adapter' = adapter /\ held' = held]_vars

\* C8: Write on a transport that is not open returns an error, hands no bytes
\* to the device, makes no operating-system call (so no implicit Open) and
\* leaves the transport closed and unchanged.
C8_WriteRequiresOpen ==
    [][(last'.op = "Write" /\ ~IsOpen(adapter)) =>
         /\ last'.ret # Nil
         /\ last'.sent = <<>>
         /\ last'.io = <<>>
         /\ ~IsOpen(adapter')
         /\ adapter' = adapter /\ held' = held]_vars

C8_Witness ==
    /\ last.op = "Write" /\ last.ret \in NotOpenErrors
    /\ last.calls[1].arg # <<>> /\ last.sent = <<>>
    /\ ~IsOpen(adapter)

\* C9: Read on a transport that is not open returns a not-open error (on the
\* stub, its not-available error); a Read returns no data and no error only on
\* the console and on an open USB transport without an IN endpoint.
C9_ReadNotOpenErrors ==
    last.op = "Read" =>
      /\ ~IsOpen(adapter) => last.ret \in NotOpenErrors \cup {ErrUSBUnavailable}
      /\ (last.ret = Nil /\ last.data = <<>>) =>
            \/ adapter.kind = "console"
            \/ adapter.kind = "usb" /\ adapter.open /\ adapter.inEP = 0

\* C10: while one caller is between its Open and its Close, an Open, Write or
\* Close by another caller on the same USB transport has no effect: it changes
\* nothing in the transport and sends nothing to the device.
C10_LifecycleExclusive ==
    [][\A c \in Callers :
         (/\ actor' = c
          /\ last'.op \in {"Open", "Write", "Close"}
          /\ \E d \in Callers \ {c} : inJob[d]) =>
            /\ adapter' = adapter
            /\ held' = held
            /\ last'.sent = <<>>]_vars

\* ---------------------------------------------------------- builder claims
\* the step is a builder call: NewCall is the call, Appended the bytes it added
Called == Len(chain') = Len(chain) + 1
NewCall == chain'[Len(chain')]
Appended == SubSeq(buffer', Len(buffer) + 1, Len(buffer'))
LastCall == chain[Len(chain)]

SameChain(a, b) == Len(a) = Len(b) /\ \A i \in 1 .. Len(a) : SameCall(a[i], b[i])

ReceiptBytes ==
    <<27, 64, 27, 97, 1, 27, 69, 1, 72, 69, 76, 76, 79, 27, 69, 0, 10, 10, 10, 29, 86, 0>>

\* the documented encoding of a call of the basic builder methods
CallBytes(c, w) ==
    CASE c.m = "Init" -> <<27, 64>>
      [] c.m = "Text" -> c.args[1]
      [] c.m = "Align" ->
           (CASE c.args[1] \in {"left", "lt", "LT"} -> <<27, 97, 0>>
              [] c.args[1] \in {"center", "ct", "CT"} -> <<27, 97, 1>>
              [] c.args[1] \in {"right", "rt", "RT"} -> <<27, 97, 2>>
              [] OTHER -> <<>>)
      [] c.m = "Bold" -> <<27, 69, IF c.args[1] THEN 1 ELSE 0>>
      [] c.m = "Font" ->
           (CASE c.args[1] \in {"a", "A"} -> <<27, 77, 0>>
              [] c.args[1] \in {"b", "B"} -> <<27, 77, 1>>
              [] c.args[1] \in {"c", "C"} -> <<27, 77, 2>>
              [] OTHER -> <<>>)
      [] c.m = "DrawLine" ->
           [i \in 1 .. (w * Len(IF c.args[1] = <<>> THEN <<45>> ELSE c.args[1])) |->
              (IF c.args[1] = <<>> THEN <<45>> ELSE c.args[1])[((i - 1) % Len(IF c.args[1] = <<>> THEN <<45>> ELSE c.args[1])) + 1]]
           \o <<10>>
      [] c.m = "Cut" -> <<10, 10, 10, 29, 86, IF c.args[1] THEN 1 ELSE 0>>

\* C11: every builder call leaves the bytes already buffered in place and adds
\* exactly its own encoding after them, so the buffer is the concatenation of
\* the encodings in call order; the receipt Init, Align(center), Bold(true),
\* Text("HELLO"), Bold(false), Cut(false) yields 1B 40 1B 61 01 1B 45 01 HELLO
\* 1B 45 00 0A 0A 0A 1D 56 00.
C11_OrderedAccumulation ==
    [][Called =>
         /\ IsPrefix(buffer, buffer')
         /\ Appended = CallBytes(NewCall, width)
         /\ SameChain(chain', Receipt) => buffer' = ReceiptBytes]_vars

C11_Witness ==
    /\ SameChain(chain, Receipt)
    /\ buffer = ReceiptBytes

\* C19: Cut appends three line feeds and then the cut command: 1D 56 01 for a
\* partial cut, 1D 56 00 for a full cut.
C19_CutFeedsThree ==
    [][(Called /\ NewCall.m = "Cut") =>
         /\ IsPrefix(buffer, buffer')
         /\ Appended = <<10, 10, 10, 29, 86, IF NewCall.args[1] THEN 1 ELSE 0>>]_vars

C19_Witness ==
    /\ Len(chain) = 2 /\ LastCall.m = "Cut" /\ LastCall.args[1] = FALSE
    /\ chain[1].m = "Text"
    /\ buffer = HELLO \o <<10, 10, 10, 29, 86, 0>>

\* C20: the tracked width is 48 at construction and after Font A, 64 after Font
\* B or C, and never anything else; only Font changes it; DrawLine appends its
\* character (or "-") that many times and one line feed; the bytes of every
\* other call are the same at either width.
C20_WidthTracksFont ==
    [][/\ width \in {48, 64} /\ width' \in {48, 64}
       /\ last.op = "New" => width = 48
       /\ (Called /\ NewCall.m = "Font") =>
            /\ NewCall.args[1] \in {"a", "A"} => width' = 48
            /\ NewCall.args[1] \in {"b", "B", "c", "C"} => width' = 64
       /\ ~(Called /\ NewCall.m = "Font") => width' = width
       /\ (Called /\ NewCall.m = "DrawLine") =>
            /\ Len(Appended) = width * (IF NewCall.args[1] = <<>> THEN 1 ELSE Len(NewCall.args[1])) + 1
            /\ Appended = CallBytes(NewCall, width)
       /\ (Called /\ NewCall.m # "DrawLine") =>
            /\ Appended = CallBytes(NewCall, 48)
            /\ Appended = CallBytes(NewCall, 64)]_vars

C20_Witness ==
    /\ width = 64
    /\ Len(chain) = 1 /\ LastCall.m = "DrawLine" /\ LastCall.args[1] = <<61>>
    /\ buffer = [i \in 1 .. 64 |-> 61] \o <<10>>

\* ------------------------------------------------- parametrised-call claims
Clamp(x, lo, hi) == IF x < lo THEN lo ELSE IF x > hi THEN hi ELSE x

\* C12: Size(width, height) appends 1D 21 n with n = (w-1)*16 + (h-1), w and h
\* being width and height clamped into [1,8]; n lies in 0..119, so it is the
\* clamped value and not a value wrapped modulo 256.
C12_SizeClamped ==
    [][(Called /\ NewCall.m = "Size") =>
         LET n == (Clamp(NewCall.args[1], 1, 8) - 1) * 16 + (Clamp(NewCall.args[2], 1, 8) - 1)
         IN  /\ Appended = <<29, 33, n>>
             /\ n \in 0 .. 119
             /\ IsPrefix(buffer, buffer')]_vars

C12_Witness ==
    /\ Len(chain) = 1 /\ LastCall.m = "Size" /\ LastCall.args = <<300, -1>>
    /\ buffer = <<29, 33, 112>>

C14_ParametersClamped ==
    [][Called =>
         /\ NewCall.m = "Charset" => Appended = <<27, 82, Clamp(NewCall.args[1], 0, 15)>>
         /\ NewCall.m = "CodePage" => Appended = <<27, 116, Clamp(NewCall.args[1], 0, 255)>>
         /\ NewCall.m = "FeedDots" => Appended = <<27, 74, Clamp(NewCall.args[1], 0, 255)>>
         /\ NewCall.m = "FeedLines" => Appended = <<27, 100, Clamp(NewCall.args[1], 0, 255)>>
         /\ NewCall.m = "Barcode" =>
              /\ SubSeq(Appended, 7, 9) = <<29, 104, Clamp(NewCall.args[4], 1, 255)>>
              /\ SubSeq(Appended, 10, 12) = <<29, 119, Clamp(NewCall.args[3], 2, 6)>>]_vars

\* the selector the command table gives a barcode type name
BarcodeSelector(t) ==
    CASE t \in {"UPC_A", "UPC-A"} -> 0
      [] t \in {"UPC_E", "UPC-E"} -> 1
      [] t = "EAN13" -> 2
      [] t = "EAN8" -> 3
      [] t = "CODE39" -> 4
      [] t = "ITF" -> 5
      [] t = "NW7" -> 6
      [] t = "CODE93" -> 72
      [] t = "CODE128" -> 73
      [] OTHER -> 4

\* C15: after the HRI, font, height and width set-up Barcode emits 1D 6B t and
\* the bytes of code, t being the table's selector of the named type (ITF 05,
\* NW7 06, CODE93 48 among them) and 04 for any other type string.
C15_BarcodeSelector ==
    [][(Called /\ NewCall.m = "Barcode") =>
         /\ SubSeq(Appended, 1, 6) = <<29, 72, 2, 29, 102, 0>>
         /\ SubSeq(Appended, 13, 15) = <<29, 107, BarcodeSelector(NewCall.args[2])>>
         /\ SubSeq(Appended, 16, 15 + Len(NewCall.args[1])) = NewCall.args[1]]_vars

\* the payload each QR constructor documents for its arguments
QRPayload(c) ==
    CASE c.m \in {"QRCode", "QRCodeURL", "QRCodeAdvanced"} -> c.args[1]
      [] c.m = "QRCodeWiFi" ->
           <<87, 73, 70, 73, 58, 84, 58>> \o c.args[3] \o <<59, 83, 58>> \o c.args[1]
           \o <<59, 80, 58>> \o c.args[2] \o <<59, 72, 58>>
           \o (IF c.args[4] THEN <<116, 114, 117, 101>> ELSE <<102, 97, 108, 115, 101>>)
           \o <<59, 59>>
      [] c.m = "QRCodeVCard" ->
           <<66, 69, 71, 73, 78, 58, 86, 67, 65, 82, 68, 10,
             86, 69, 82, 83, 73, 79, 78, 58, 51, 46, 48, 10, 78, 58>> \o c.args[1]
           \o <<10, 84, 69, 76, 58>> \o c.args[2] \o <<10, 69, 77, 65, 73, 76, 58>> \o c.args[3]
           \o <<10, 79, 82, 71, 58>> \o c.args[4] \o <<10, 69, 78, 68, 58, 86, 67, 65, 82, 68>>
      [] c.m = "QRCodeSMS" -> <<115, 109, 115, 116, 111, 58>> \o c.args[1] \o <<58>> \o c.args[2]
      [] c.m = "QRCodeEmail" ->
           <<109, 97, 105, 108, 116, 111, 58>> \o c.args[1]
           \o <<63, 115, 117, 98, 106, 101, 99, 116, 61>> \o c.args[2]
           \o <<38, 98, 111, 100, 121, 61>> \o c.args[3]
      [] c.m = "QRCodePhone" -> <<116, 101, 108, 58>> \o c.args[1]

QRMethods ==
    {"QRCode", "QRCodeURL", "QRCodeAdvanced", "QRCodeWiFi", "QRCodeVCard", "QRCodeSMS",
     "QRCodeEmail", "QRCodePhone"}

WiFiExample ==
    <<87, 73, 70, 73, 58, 84, 58, 87, 80, 65, 59, 83, 58, 78, 101, 116, 59, 80, 58, 112, 119,
      59, 72, 58, 102, 97, 108, 115, 101, 59, 59>>

\* C16: every QR constructor stores its payload as 1D 28 6B pL pH 31 50 30 and
\* the payload bytes, with pL + 256*pH = len(payload) + 3 (payloads of at most
\* 65532 bytes); QRCodeWiFi("Net", "pw", "WPA", false) stores the payload
\* WIFI:T:WPA;S:Net;P:pw;H:false;;
C16_QRStoreLength ==
    [][(Called /\ NewCall.m \in QRMethods) =>
         LET payload == QRPayload(NewCall)
             n == Len(payload)
         IN  /\ Len(Appended) = 41 + n
             /\ SubSeq(Appended, 26, 28) = <<29, 40, 107>>
             /\ Appended[29] \in 0 .. 255 /\ Appended[30] \in 0 .. 255
             /\ n + 3 <= 65535 => Appended[29] + 256 * Appended[30] = n + 3
             /\ SubSeq(Appended, 31, 33) = <<49, 80, 48>>
             /\ SubSeq(Appended, 34, 33 + n) = payload
             /\ (NewCall.m = "QRCodeWiFi"
                 /\ NewCall.args = <<<<78, 101, 116>>, <<112, 119>>, <<87, 80, 65>>, FALSE>>) =>
                  /\ SubSeq(Appended, 34, 64) = WiFiExample
                  /\ SubSeq(Appended, 29, 30) = <<34, 0>>]_vars

C16_Witness ==
    /\ Len(chain) = 1 /\ LastCall.m = "QRCode" /\ Len(LastCall.args[1]) = 253
    /\ SubSeq(buffer, 26, 33) = <<29, 40, 107, 0, 1, 49, 80, 48>>
    /\ SubSeq(buffer, 34, 286) = LastCall.args[1]

\* C17: the URL, WiFi, vCard, SMS, Email and Phone constructors emit error
\* correction level M (49), the generic QRCode emits level L (48), and all of
\* them emit model 2 (50).
C17_QRErrorLevels ==
    [][(Called /\ NewCall.m \in QRMethods \ {"QRCodeAdvanced"}) =>
         /\ SubSeq(Appended, 1, 9) = <<29, 40, 107, 4, 0, 49, 65, 50, 0>>
         /\ SubSeq(Appended, 18, 24) = <<29, 40, 107, 3, 0, 49, 69>>
         /\ Appended[25] = IF NewCall.m = "QRCode" THEN 48 ELSE 49]_vars

C17_Witness ==
    /\ Len(chain) = 1 /\ LastCall.m = "QRCodeURL"
    /\ buffer[8] = 50 /\ buffer[25] = 49

\* C18: QRCodeAdvanced emits its size argument clamped into [1,16]: 1 for a
\* size below 1, 16 for a size above 16, the size itself otherwise.
C18_QRSizeClamped ==
    [][(Called /\ NewCall.m = "QRCodeAdvanced") =>
         /\ SubSeq(Appended, 10, 16) = <<29, 40, 107, 3, 0, 49, 67>>
         /\ Appended[17] = Clamp(NewCall.args[2], 1, 16)]_vars

\* ------------------------------------------------------- transport claims
\* the step is an Open of the closed native USB transport, and it is what
\* USBAdapter.Open does when the operating system answers e
OpenedUnder(e) ==
    /\ last'.op = "Open" /\ adapter.kind = "usb" /\ ~adapter.open
    /\ \E r \in {USBOpen(adapter, held, e)} :
         /\ adapter' = r.a /\ held' = r.held
         /\ last'.ret = r.err /\ last'.io = r.io

\* C21: USB Open looks the device up by vendor/product pair when both are
\* non-zero and otherwise takes the first enumerated printer-class device; it
\* fails and leaves the transport closed when there is no such device, when
\* the interface cannot be claimed or when the interface has no OUT endpoint;
\* with an OUT endpoint it succeeds whether or not there is an IN endpoint.
C21_USBOpenSelection ==
    [][\A e \in OpenEnvs : OpenedUnder(e) =>
         /\ last'.io[2] = IF adapter.VendorID # 0 /\ adapter.ProductID # 0
                            THEN "OpenDeviceWithVIDPID" ELSE "OpenDevices"
         /\ IF ~e.err /\ e.found /\ e.claimOk /\ e.hasOut
              THEN /\ last'.ret = Nil /\ adapter'.open
                   /\ adapter'.device = Fresh(held \cup {adapter'.ctx}, 1)
                   /\ held' = held \cup {adapter'.ctx, adapter'.device, adapter'.intf}
              ELSE last'.ret # Nil /\ ~adapter'.open]_vars

\* C21 on a transport that has never been opened (no endpoint field is set)
C21_FirstOpen ==
    [][\A e \in OpenEnvs : (OpenedUnder(e) /\ adapter.outEP = 0) =>
         IF ~e.err /\ e.found /\ e.claimOk /\ e.hasOut
           THEN last'.ret = Nil /\ adapter'.open
           ELSE last'.ret # Nil /\ ~adapter'.open]_vars

\* C22: on the USB stub every Open, Write and Read returns the not-available
\* error, IsOpen is false before and after every call, and no call, direct or
\* made by Flush, hands bytes to a device.
C22_StubRefusesAll ==
    [][adapter.kind = "usbstub" =>
         /\ ~IsOpen(adapter) /\ ~IsOpen(adapter')
         /\ last'.op \in {"Open", "Write", "Read"} => last'.ret = ErrUSBUnavailable
         /\ \A i \in 1 .. Len(last'.calls) :
              last'.calls[i].m \in {"Open", "Write", "Read"} =>
                 last'.calls[i].err = ErrUSBUnavailable
         /\ last'.sent = <<>> /\ last'.io = <<>>
         /\ held' = {}]_vars

C22_Witness ==
    /\ adapter.kind = "usbstub" /\ last.op = "Write"
    /\ last.calls[1].arg = <<65, 65>> /\ last.ret = ErrUSBUnavailable
    /\ last.sent = <<>>

\* the spooler calls of a step, in the order they were made
SpoolIo(io) == SelectSeq(io, LAMBDA x : x # "OpenPrinterW")

Has(io, x) == \E i \in 1 .. Len(io) : io[i] = x

StageRank(x) ==
    CASE x = "StartDoc" -> 1 [] x = "StartPage" -> 2 [] x = "WritePrinter" -> 3
      [] x = "EndPage" -> 4 [] x = "EndDoc" -> 5 [] OTHER -> 0

\* the step made a Write call on the open spooler transport, directly or from
\* Flush, and it is what WindowsPrinter.Write does when the stage e.fail fails
SpoolerWrote(e) ==
    /\ adapter.kind = "windows" /\ last'.op \in {"Write", "Flush"}
    /\ adapter'.handle # 0
    /\ \E i \in WriteCalls(last'.calls) :
         \E w \in {WinWrite(adapter', held', last'.calls[i].arg, e)} :
            /\ last'.calls[i].err = w.err
            /\ SpoolIo(last'.io) = w.io
            /\ last'.sent = w.sent

\* C23: a spooler Write makes its calls in the order StartDoc, StartPage,
\* WritePrinter, EndPage, EndDoc, and whatever fails, a document that was
\* started is ended and a page that was started is ended.
C23_SpoolerBracketing ==
    [][\A e \in IoEnvs : SpoolerWrote(e) =>
         LET io == SpoolIo(last'.io)
         IN  /\ \A i, j \in 1 .. Len(io) :
                   i < j => (0 < StageRank(io[i]) /\ StageRank(io[i]) < StageRank(io[j]))
             /\ (Has(io, "StartDoc") /\ e.fail # "StartDoc") => Has(io, "EndDoc")
             /\ (Has(io, "StartPage") /\ e.fail # "StartPage") => Has(io, "EndPage")
             /\ Has(io, "StartPage") => Has(io, "StartDoc")
             /\ Has(io, "WritePrinter") => Has(io, "StartPage")]_vars

\* C23 for Writes that carry at least one byte
C23_NonEmptyData ==
    [][\A e \in IoEnvs :
         (SpoolerWrote(e) /\ \A i \in WriteCalls(last'.calls) : last'.calls[i].arg # <<>>) =>
            LET io == SpoolIo(last'.io)
            IN  /\ \A i, j \in 1 .. Len(io) :
                      i < j => (0 < StageRank(io[i]) /\ StageRank(io[i]) < StageRank(io[j]))
                /\ (Has(io, "StartDoc") /\ e.fail # "StartDoc") => Has(io, "EndDoc")
                /\ (Has(io, "StartPage") /\ e.fail # "StartPage") => Has(io, "EndPage")]_vars

\* C24: a spooler Write returns an error whenever one of the five stages
\* fails, and returns nil only when all five were made and succeeded.
C24_SpoolerErrors ==
    [][\A e \in IoEnvs : SpoolerWrote(e) =>
         \A i \in WriteCalls(last'.calls) :
            /\ e.fail # "none" => last'.calls[i].err # Nil
            /\ last'.calls[i].err = Nil =>
                  /\ e.fail = "none"
                  /\ SpoolIo(last'.io) =
                        <<"StartDoc", "StartPage", "WritePrinter", "EndPage", "EndDoc">>]_vars

\* C24 for the stages whose result the code tests
C24_TestedStages ==
    [][\A e \in IoEnvs : (SpoolerWrote(e) /\ e.fail \in {"StartDoc", "StartPage", "Write"}) =>
         \A i \in WriteCalls(last'.calls) : last'.calls[i].err # Nil]_vars

\* ------------------------------------------------------ printer discovery
MaxFound == 2      \* most descriptors one discovery sub-source returns

PrinterInfo(vid, pid, mfr, product, isPrinter, deviceType) ==
    [VendorID |-> vid, ProductID |-> pid, Manufacturer |-> mfr, Product |-> product,
     IsPrinter |-> isPrinter, DeviceType |-> deviceType]

USBDeviceInfo(vid, pid, description, mfr, isPrinter) ==
    [VendorID |-> vid, ProductID |-> pid, Description |-> description,
     Manufacturer |-> mfr, IsPrinter |-> isPrinter]

\* what a sub-source answers: the descriptors, or an error and no descriptors
Found(list, err) == [list |-> list, err |-> err]

\* the answers a sub-source can give over the descriptors S, each as the pair
\* <<descriptors, error>> of field tuples
FoundBy(S) ==
    {<<l, Nil>> : l \in SeqsUpTo(S, MaxFound)} \cup {<<(<<>>), "enumeration failed">>}

\* faulty variant of FindPrintersErr: a sub-source error fails the discovery
FindPrintersErr_Propagate(errs) ==
    IF \E i \in 1 .. Len(errs) : errs[i] # Nil THEN "discovery failed" ELSE Nil

\* the error FindPrinters returns, given the errors of its sub-sources
FindPrintersErr(errs) == Nil

\* win, all, usb: the answers of FindWindowsPrinters, FindAllUSBDevices and
\* FindUSBPrinters (only the ones the platform has are called)
FindPrinters(goos, win, all, usb) ==
    IF goos = "windows"
      THEN LET p1 == IF win.err # Nil THEN <<>> ELSE win.list
               p2 == IF all.err # Nil THEN p1
                     ELSE p1 \o [i \in 1 .. Len(all.list) |->
                                   PrinterInfo(all.list[i].VendorID, all.list[i].ProductID,
                                               all.list[i].Manufacturer, all.list[i].Description,
                                               all.list[i].IsPrinter, "USB")]
           IN  [printers |-> p2, err |-> FindPrintersErr(<<win.err, all.err>>),
                calls |-> <<Call("FindWindowsPrinters", win.list, win.err),
                            Call("FindAllUSBDevices", all.list, all.err)>>]
      ELSE [printers |-> IF usb.err # Nil THEN <<>>
                         ELSE [i \in 1 .. Len(usb.list) |-> [usb.list[i] EXCEPT !.DeviceType = "USB"]],
            err |-> FindPrintersErr(<<usb.err>>),
            calls |-> <<Call("FindUSBPrinters", usb.list, usb.err)>>]

\* a sub-source the platform does not have is not called: its answer is empty
FindPrintersCall ==
    \E goos \in {"windows", "linux"} :
    \E w \in (IF goos # "windows" THEN {<<(<<>>), Nil>>}
              ELSE FoundBy({<<0, 0, "Windows Printer", name, TRUE, "Windows">> :
                              name \in {"POS-80", "Fax"}})),
       a \in (IF goos # "windows" THEN {<<(<<>>), Nil>>}
              ELSE FoundBy({<<1208, 514, "TM-T20", "EPSON", TRUE>>,
                            <<1133, 49271, "USB Mouse", "Logitech", FALSE>>,
                            <<1046, 20497, "USB Printing Support", "", TRUE>>})),
       u \in (IF goos = "windows" THEN {<<(<<>>), Nil>>}
              ELSE FoundBy({<<1208, 514, "EPSON", "TM-T20", TRUE, "">>,
                            <<1133, 49271, "", "", FALSE, "">>})) :
      LET Printers(l) == [i \in 1 .. Len(l) |->
                            PrinterInfo(l[i][1], l[i][2], l[i][3], l[i][4], l[i][5], l[i][6])]
          Devices(l) == [i \in 1 .. Len(l) |->
                           USBDeviceInfo(l[i][1], l[i][2], l[i][3], l[i][4], l[i][5])]
          r == FindPrinters(goos, Found(Printers(w[1]), w[2]), Found(Devices(a[1]), a[2]),
                            Found(Printers(u[1]), u[2]))
      IN  /\ last' = Last("FindPrinters", r.calls, r.err, <<>>, <<>>, r.printers)
          /\ UNCHANGED <<buffer, adapter, held, inJob, actor, width, chain, serving>>

\* the service starts as the builder bound to its transport, before any call
SpecFind == InitBuilder /\ [][FindPrintersCall]_vars

\* the descriptor FindPrinters is to return for a sub-source's descriptor d
Listed(m, d) ==
    IF m = "FindAllUSBDevices"
      THEN PrinterInfo(d.VendorID, d.ProductID, d.Manufacturer, d.Description, d.IsPrinter, "USB")
    ELSE IF m = "FindUSBPrinters"
      THEN PrinterInfo(d.VendorID, d.ProductID, d.Manufacturer, d.Product, d.IsPrinter, "USB")
    ELSE d

\* C25: FindPrinters always returns a nil error, and its result holds, in
\* order, the descriptors of every sub-source that did not fail, whether or
\* not the other sub-source failed, and nothing else.
C25_FindPrintersNeverFails ==
    last.op = "FindPrinters" =>
      /\ last.ret = Nil
      /\ \A i \in 1 .. Len(last.calls) :
           last.calls[i].err = Nil =>
             \A k \in 1 .. Len(last.calls[i].arg) :
                \E j \in 1 .. Len(last.data) :
                   last.data[j] = Listed(last.calls[i].m, last.calls[i].arg[k])
      /\ \A j \in 1 .. Len(last.data) :
           \E i \in 1 .. Len(last.calls) :
              /\ last.calls[i].err = Nil
              /\ \E k \in 1 .. Len(last.calls[i].arg) :
                    last.data[j] = Listed(last.calls[i].m, last.calls[i].arg[k])

C25_Witness ==
    /\ last.op = "FindPrinters" /\ Len(last.calls) = 2
    /\ last.calls[1].err # Nil /\ last.calls[2].err = Nil
    /\ Len(last.calls[2].arg) = 2 /\ Len(last.data) = 2
    /\ last.data[1].Product = "TM-T20" /\ last.data[1].DeviceType = "USB"

\* C26: on the native USB transport the context, the device handle and the
\* interface claim are held exactly when the transport is open, and nothing
\* else is held: a failed Open has released what it acquired, the extra
\* devices of auto-detection are closed, and Close has released all three.
C26_USBHeldIffOpen ==
    adapter.kind = "usb" =>
      held = IF adapter.open THEN {adapter.ctx, adapter.device, adapter.intf} ELSE {}

\* C26 for lookups that return no device together with an error
C26_CleanLookups ==
    [][\A e \in OpenEnvs :
         (OpenedUnder(e) /\ ~(e.err /\ e.found)
            /\ held = IF adapter.open THEN {adapter.ctx, adapter.device, adapter.intf} ELSE {}) =>
         held' = IF adapter'.open THEN {adapter'.ctx, adapter'.device, adapter'.intf} ELSE {}]_vars

\* ------------------------------------------------ the HTTP print service
\* net/http runs every request's handler in a goroutine of its own and the
\* handlers share s.Printer without a lock, so the builder calls of
\* concurrent handlers interleave call by call.

\* fmt.Sprintf("TOTAL: $%.2f", req.Total), for the totals posted
FormatTotal(total) ==
    CASE total = 0 -> <<84, 79, 84, 65, 76, 58, 32, 36, 48, 46, 48, 48>>

\* the bytes the builder calls of PrintHandler append, call by call, for a
\* request without items (a request with items has one Println per item)
PrintHandlerCalls(req, w) ==
    <<HW_INIT, Align("center"), Bold(TRUE), req.Header \o CTL_LF, Bold(FALSE), CTL_LF,
      Align("left"), DrawLine(<<45>>, w)>>
    \o <<DrawLine(<<45>>, w), Align("right"), Bold(TRUE), FormatTotal(req.Total) \o CTL_LF,
         Bold(FALSE), CTL_LF>>
    \o (IF req.Footer # <<>> THEN <<Align("center"), req.Footer \o CTL_LF>> ELSE <<>>)
    \o <<Feed(2), Cut(FALSE)>>

\* s.Printer.Raw(req.Data)
RawPrintHandlerCalls(req) == <<req.Data>>

\* the requests posted: client 1 posts a receipt or raw bytes, the others raw bytes
RoutesOf(c) == IF c = 1 THEN {"/print", "/raw"} ELSE {"/raw"}

HandlerCalls(route, c, w) ==
    IF route = "/print"
      THEN PrintHandlerCalls([Header |-> JobData(c), Items |-> <<>>, Total |-> 0, Footer |-> <<>>], w)
      ELSE RawPrintHandlerCalls([Data |-> JobData(c)])

\* the next builder call of the handler that serves client c (the first call
\* of a new request when none is being served)
ServeCall(c) ==
    \E route \in (IF serving[c] = Idle THEN RoutesOf(c) ELSE {serving[c].route}) :
      \E calls \in {HandlerCalls(route, c, width)} :
          /\ serving[c].pc < Len(calls)
          /\ buffer' = AppendBytes(buffer, calls[serving[c].pc + 1])
          /\ serving' = [serving EXCEPT ![c] = [route |-> route, pc |-> serving[c].pc + 1]]
          /\ actor' = c
          /\ last' = Last("Call", <<>>, Nil, <<>>, <<>>, <<>>)
          /\ UNCHANGED <<adapter, held, inJob, width, chain>>

\* the p.Flush() that ends the handler
ServeFlush(c) ==
    /\ serving[c] # Idle
    /\ serving[c].pc = Len(HandlerCalls(serving[c].route, c, width))
    /\ \E oe \in OpenEnvsOf(adapter), we \in IoEnvsOf(adapter) :
         \E o \in {FlushOpen(buffer, adapter, held, oe)} :
         \E r \in {FlushCall(buffer, adapter, o, we)} :
             /\ buffer' = r.buffer
             /\ adapter' = r.a
             /\ held' = r.held
             /\ last' = Last("Flush", r.calls, r.err, r.io, r.sent, <<>>)
    /\ serving' = [serving EXCEPT ![c] = Idle]
    /\ actor' = c
    /\ UNCHANGED <<inJob, width, chain>>

NextServe ==
    \E c \in Callers :
        \/ ServeCall(c)
        \/ ServeFlush(c)

SpecServe == InitBuilder /\ [][NextServe]_vars

RECURSIVE Flat(_)
Flat(ss) == IF ss = <<>> THEN <<>> ELSE Head(ss) \o Flat(Tail(ss))

\* C27: every Write the service makes carries the bytes of exactly one
\* request: all the bytes of that request's handler, in order, and no byte
\* of another request.
C27_OneRequestPerWrite ==
    [][last'.op = "Flush" =>
         \A i \in WriteCalls(last'.calls) :
            \E c \in Callers : \E route \in RoutesOf(c) :
               last'.calls[i].arg = Flat(HandlerCalls(route, c, width))]_vars

\* C27 for a handler that runs from its first call to its Flush while no
\* other handler is running
C27_AloneInService ==
    [][(/\ last'.op = "Flush"
        /\ \A d \in Callers \ {actor'} : serving[d] = Idle
        /\ buffer = Flat(HandlerCalls(serving[actor'].route, actor', width))) =>
         \A i \in WriteCalls(last'.calls) : last'.calls[i].arg = buffer]_vars

C29_WriteFailureKeepsOpen ==
    [][/\ (/\ adapter.kind \in {"usb", "network", "windows"}
           /\ last'.op \in {"Write", "Flush"}
           /\ \E i \in WriteCalls(last'.calls) :
                 last'.calls[i].err \notin {Nil} \cup NotOpenErrors) =>
            /\ IsOpen(adapter')
            /\ IsOpen(adapter) => adapter' = adapter
            /\ Refs(adapter') \subseteq held'
       /\ (/\ adapter.kind \in {"usb", "network", "windows"}
           /\ last'.op = "Flush" /\ IsOpen(adapter)) =>
            /\ OpenCalls(last'.calls) = {}
            /\ adapter' = adapter /\ held' = held
       /\ (IsOpen(adapter) /\ ~IsOpen(adapter')) => last'.op = "Close"]_vars

C29_Witness ==
    /\ adapter.kind = "network" /\ IsOpen(adapter) /\ adapter.conn \in held
    /\ last.op = "Flush" /\ last.ret = ErrIO
    /\ Len(last.calls) = 2 /\ last.calls[2].m = "Write" /\ last.calls[2].arg # <<>>

\* the endpoint transfers of a step
EndpointIo(io) == \E i \in 1 .. Len(io) : io[i] \in {"outEP.Write", "inEP.Read"}

\* C30: on the native USB transport at most one call is inside a method at
\* any time (so two Writes never overlap), every method body runs while its
\* caller alone holds the mutex, and an endpoint write or read happens only
\* while the transport is open with its context, device and interface held,
\* never between a Close and the next successful Open.
C30_USBCallsAtomic ==
    [][/\ Cardinality({c \in Callers : serving[c] # Idle}) <= 1
       /\ Cardinality({c \in Callers : serving'[c] # Idle}) <= 1
       /\ \A c \in Callers :
            \* the body of a method called by c runs in this step
            (serving[c] # Idle /\ serving'[c] = Idle) =>
               /\ actor' = c
               /\ \A d \in Callers \ {c} : serving[d] = Idle /\ serving'[d] = Idle
               /\ EndpointIo(last'.io) =>
                    /\ adapter.open /\ adapter'.open
                    /\ {adapter.ctx, adapter.device, adapter.intf} \subseteq held
               /\ (last'.op \in {"Write", "Read"} /\ ~adapter.open) =>
                    /\ last'.io = <<>> /\ last'.sent = <<>> /\ last'.data = <<>>
       /\ (\A c \in Callers : serving[c] = Idle \/ serving'[c] # Idle) =>
            /\ adapter' = adapter /\ held' = held /\ last' = last]_vars

C30_Witness ==
    /\ adapter.kind = "usb" /\ ~adapter.open /\ adapter.intf # 0 /\ adapter.intf \notin held
    /\ last.op = "Write" /\ last.ret = ErrAdapterNotOpen /\ last.io = <<>>
    /\ actor = 2 /\ serving[1] # Idle


====
